---- MODULE Spec2Model ----
(***************************************************************************)
(* HallPass: hall reservation with a 1-hour buffer rule, a monthly         *)
(* availability calendar and a token-addressed approval page.              *)
(*                                                                         *)
(* Stores: Firestore collection pendingBookings (authoritative), Realtime  *)
(* Database hallBookings/<id> (mirror) and users/<uid>/bookings/<id>        *)
(* (per-requester index).                                                  *)
(*                                                                         *)
(* Every await of the source is one step of the model; a store call either *)
(* succeeds or throws.  All parties run in one time zone.                  *)
(***************************************************************************)
EXTENDS Integers, Naturals, Sequences, FiniteSets, TLC

(***************************************************************************)
(* Bounds of the model.                                                    *)
(***************************************************************************)
NumClients == 2        \* booking-form sessions, one request each
NumPages == 2          \* approval-page sessions, one load each
MaxCalls == 2          \* invocations of updateBookingStatus
NumDays == 1           \* days of the month the requests fall on
MonthLength == 2       \* days of the calendar's month (NumDays <= MonthLength)
MaxProbeBookings == 2  \* bookings handed to the calendar when it is applied alone

(***************************************************************************)
(* Program constants.                                                      *)
(***************************************************************************)
OPERATIONAL_START_HOUR == 9
OPERATIONAL_END_HOUR == 17
BOOKING_DURATION_HOURS == 1
GAP_DURATION_HOURS == 1
startHour == 9
endHour == 17
FormGapHours == 1
MinutesPerHour == 60
MinutesPerDay == 1440

Clients == 1..NumClients
Pages == 1..NumPages
CallIds == 1..MaxCalls
Days == 1..NumDays
Ids == Clients                \* addDoc gives each created document its own id

NoValue == "none"             \* undefined / null / absent
DefaultHalls == <<"Main Hall", "Seminar Room A", "Conference Room B">>
Halls == {"Main Hall", "Seminar Room A"}

(***************************************************************************)
(* Times.  A time of day is the form's "HH:MM" string, kept as its two     *)
(* numbers; a Date is the number of minutes since the month began.         *)
(***************************************************************************)
HM(h, m) == [h |-> h, m |-> m]

\* startOfDay(date)
startOfDay(date) == (date \div MinutesPerDay) * MinutesPerDay

\* setMinutes(setHours(day, h), m)
setHours(date, h) == startOfDay(date) + h * MinutesPerHour + (date % MinutesPerHour)
setMinutes(date, m) == (date \div MinutesPerHour) * MinutesPerHour + m

\* addHours(date, n)
addHours(date, n) == date + n * MinutesPerHour

\* the Date of a day of the month at 00:00
DayDate(d) == d * MinutesPerDay

\* const [h, m] = t.split(':').map(Number); setMinutes(setHours(day, h), m)
TimeOnDay(dayStart, t) == setMinutes(setHours(dayStart, t.h), t.m)

\* Date.toISOString() and parseISO(): the string names the instant
toISOString(date) == <<"iso", date>>
parseISO(s) == s[2]

isBefore(a, b) == a < b
isSameDay(a, b) == startOfDay(a) = startOfDay(b)

RECURSIVE SeqOfSet(_)
SeqOfSet(S) ==
  IF S = {} THEN <<>>
  ELSE LET x == CHOOSE y \in S : \A z \in S : y <= z
       IN <<x>> \o SeqOfSet(S \ {x})

Range(s) == {s[i] : i \in DOMAIN s}

None == <<>>                  \* an absent optional field
Some(x) == <<x>>
IsSome(o) == o # <<>>
The(o) == o[1]

(***************************************************************************)
(* Booking form: the time selects and the schema.                          *)
(***************************************************************************)
\* generateTimeSlots(): 09:00, 09:30, ..., 17:00
Tslots ==
  LET hours == [i \in 1..(endHour - startHour + 1) |-> startHour + i - 1]
      half(hour) == IF hour < endHour THEN <<HM(hour, 0), HM(hour, 30)>>
                    ELSE <<HM(hour, 0)>>
      F[i \in 0..Len(hours)] == IF i = 0 THEN <<>> ELSE F[i - 1] \o half(hours[i])
  IN F[Len(hours)]

startSlots == SubSeq(Tslots, 1, Len(Tslots) - 1)
endSlots == SubSeq(Tslots, 2, Len(Tslots))

\* bookingFormSchema's refine: false when the end is not after the start
SchemaRefine(data) ==
  ~(data.endTime.h < data.startTime.h
      \/ (data.endTime.h = data.startTime.h /\ data.endTime.m <= data.startTime.m))

(***************************************************************************)
(* The two conflict tests.                                                 *)
(***************************************************************************)
\* the form's test with inclusive boundaries
FormConflictInclusive(newBookingStart, newBookingEnd, existingStart, existingEnd) ==
  LET existingRangeStart == addHours(existingStart, -FormGapHours)
      existingRangeEnd == addHours(existingEnd, FormGapHours)
  IN ~isBefore(existingRangeEnd, newBookingStart)
       /\ ~isBefore(newBookingEnd, existingRangeStart)

\* booking-form.tsx: the body of the loop over the existing bookings
FormConflict(newBookingStart, newBookingEnd, existingStart, existingEnd) ==
  LET existingRangeStart == addHours(existingStart, -FormGapHours)
      existingRangeEnd == addHours(existingEnd, FormGapHours)
  IN isBefore(newBookingStart, existingRangeEnd)
       /\ isBefore(existingRangeStart, newBookingEnd)

\* venue-calendar.tsx: the body of the loop over bookingsForHallOnDay
SlotConflict(slotStart, slotEnd, booking) ==
  LET effectiveBookingStart == addHours(booking.start, -GAP_DURATION_HOURS)
      effectiveBookingEnd == addHours(booking.end, GAP_DURATION_HOURS)
  IN slotStart < effectiveBookingEnd /\ slotEnd > effectiveBookingStart

(***************************************************************************)
(* State.                                                                  *)
(***************************************************************************)
VARIABLES
  fs,             \* Firestore pendingBookings: id -> document
  hallBookings,   \* Realtime Database hallBookings/<id>
  userBookings,   \* Realtime Database users/<uid>/bookings/<id>
  now,            \* the servers' clock, read by serverTimestamp()
  client,         \* per booking-form session: the submit flow's position and locals
  page,           \* per approval-page session: its React state
  calls,          \* invocations of updateBookingStatus: position, arguments, locals
                  \* (updated: the updateDoc of the invocation has resolved)
  approvalMail,   \* tokens carried by the approval e-mails sent so far
  venueBookings,  \* the calendar's bookings prop
  dayStatus,      \* the calendar's dayStatus state
  probe           \* inputs and results of the last conflict test applied alone

vars == <<fs, hallBookings, userBookings, now, client, page, calls, approvalMail,
          venueBookings, dayStatus, probe>>

stores == <<fs, hallBookings, userBookings>>

\* the uid of the user of a booking-form session, and the tokens a session may draw
UserOf(c) == <<"uid", c>>
TokenOf(c) == <<"token", c>>
Tokens == {TokenOf(c) : c \in Clients}
UnknownToken == <<"token", 0>>

FormData(c, hall, day, startTime, endTime) ==
  [studentName |-> <<"name", c>>, studentEmail |-> <<"email", c>>,
   hallPreference |-> hall, date |-> DayDate(day),
   startTime |-> startTime, endTime |-> endTime]

NoFormData == FormData(0, "", 0, HM(0, 0), HM(0, 0))

\* savePendingBooking: the document handed to addDoc
FsDocument(bookingDetails, token, userId, aiReason, createdAt) ==
  LET bookingDateStartOfDay == startOfDay(bookingDetails.date)
  IN [studentName |-> bookingDetails.studentName,
      studentEmail |-> bookingDetails.studentEmail,
      hallPreference |-> bookingDetails.hallPreference,
      date |-> bookingDateStartOfDay,
      startTime |-> bookingDetails.startTime,
      endTime |-> bookingDetails.endTime,
      startTimeDate |-> TimeOnDay(bookingDateStartOfDay, bookingDetails.startTime),
      endTimeDate |-> TimeOnDay(bookingDateStartOfDay, bookingDetails.endTime),
      userId |-> userId,
      status |-> "pending",
      token |-> token,
      createdAt |-> createdAt,
      aiReason |-> aiReason,
      approvedAt |-> None,
      rejectedAt |-> None,
      rejectionReason |-> None]

\* savePendingBooking: rtdbBookingData
RtdbBookingData(bookingId, bookingDetails, userId, aiReason, createdAt) ==
  LET bookingDateStartOfDay == startOfDay(bookingDetails.date)
  IN [firestoreId |-> bookingId,
      studentName |-> bookingDetails.studentName,
      studentEmail |-> bookingDetails.studentEmail,
      hallPreference |-> bookingDetails.hallPreference,
      date |-> toISOString(bookingDateStartOfDay),
      startTime |-> bookingDetails.startTime,
      endTime |-> bookingDetails.endTime,
      startTimeISO |->
        toISOString(TimeOnDay(bookingDateStartOfDay, bookingDetails.startTime)),
      endTimeISO |->
        toISOString(TimeOnDay(bookingDateStartOfDay, bookingDetails.endTime)),
      status |-> "pending",
      userId |-> userId,
      createdAt |-> createdAt,
      aiReason |-> aiReason,
      approvedAt |-> None,
      rejectedAt |-> None,
      rejectionReason |-> None]

\* getHallBookingsForDateFromRealtimeDB: the bookings kept by the for-in loop,
\* in key order, given the snapshot of hallBookings
RtdbBookingsForHallAndDate(allBookingsObject, hallPreference, targetDate) ==
  LET targetDateStartOfDay == startOfDay(targetDate)
      keep(bookingId) ==
        LET booking == allBookingsObject[bookingId]
        IN /\ booking.hallPreference = hallPreference
           /\ (booking.status = "pending" \/ booking.status = "approved")
           /\ startOfDay(parseISO(booking.date)) = targetDateStartOfDay
      keys == SeqOfSet({k \in DOMAIN allBookingsObject : keep(k)})
  IN [i \in DOMAIN keys |-> allBookingsObject[keys[i]]]

\* checkAvailabilityWithRTDB: the loop over existingBookingsRTDB
RECURSIVE AnyFormConflict(_, _, _)
AnyFormConflict(existingBookingsRTDB, newBookingStart, newBookingEnd) ==
  IF existingBookingsRTDB = <<>> THEN FALSE
  ELSE LET booking == Head(existingBookingsRTDB)
           existingStart == parseISO(booking.startTimeISO)
           existingEnd == parseISO(booking.endTimeISO)
       IN IF FormConflict(newBookingStart, newBookingEnd, existingStart, existingEnd)
          THEN TRUE
          ELSE AnyFormConflict(Tail(existingBookingsRTDB), newBookingStart, newBookingEnd)

\* checkAvailabilityWithRTDB, given what getHallBookingsForDateFromRealtimeDB returned
checkAvailabilityWithRTDB(existingBookingsRTDB, date, startTime, endTime) ==
  LET selectedDateStartOfDay == startOfDay(date)
      newBookingStart == TimeOnDay(selectedDateStartOfDay, startTime)
      newBookingEnd == TimeOnDay(selectedDateStartOfDay, endTime)
      rtdbDataFoundInitially == Len(existingBookingsRTDB) > 0
  IN IF ~rtdbDataFoundInitially
     THEN [available |-> TRUE, rtdbDataExists |-> FALSE]
     ELSE IF AnyFormConflict(existingBookingsRTDB, newBookingStart, newBookingEnd)
          THEN [available |-> FALSE, rtdbDataExists |-> TRUE]
          ELSE [available |-> TRUE, rtdbDataExists |-> TRUE]

(***************************************************************************)
(* Booking form and home page: the submit flow of one session.             *)
(***************************************************************************)
\* what the requester of the model picks in the form: the scenario intervals of the
\* specification, one interval that fills a day, and one that the schema refuses
FormChoices ==
  {<<HM(9, 0), HM(10, 0)>>, <<HM(10, 30), HM(11, 30)>>, <<HM(11, 0), HM(12, 0)>>,
   <<HM(10, 0), HM(16, 0)>>, <<HM(10, 0), HM(9, 30)>>}

SetClient(c, rec) == client' = [client EXCEPT ![c] = rec]

\* handleBookingSubmit(null, errorMsg) and the catch blocks: an error is shown and
\* no booking result is kept
Failed(c, why) == [client[c] EXCEPT !.pc = "failed", !.error = why, !.bookingResult = FALSE]

\* the bookings a read returned, named by their firestoreId
FirestoreIds(bookings) == [i \in DOMAIN bookings |-> bookings[i].firestoreId]

\* form.handleSubmit with data the schema refuses: onSubmit is not called
SubmitInvalid(c) ==
  /\ client[c].pc = "form"
  /\ \E hall \in Halls, day \in Days, t \in FormChoices :
       LET data == FormData(c, hall, day, t[1], t[2])
       IN /\ ~SchemaRefine(data)
          /\ SetClient(c, [Failed(c, "ValidationError") EXCEPT !.data = data])
  /\ UNCHANGED <<stores, now, page, calls, approvalMail, venueBookings, dayStatus, probe>>

\* onSubmit from the result of getHallBookingsForDateFromRealtimeDB to the result of
\* checkAvailabilityWithRTDB
OnSubmitWith(c, data, existingBookingsRTDB) ==
  LET r == checkAvailabilityWithRTDB(existingBookingsRTDB, data.date,
                                     data.startTime, data.endTime)
  IN /\ SchemaRefine(data)
     /\ IF r.rtdbDataExists /\ ~r.available
        THEN SetClient(c, [Failed(c, "Conflict") EXCEPT
                             !.data = data, !.available = r.available,
                             !.existingBookingsRTDB = FirestoreIds(existingBookingsRTDB),
                             !.rtdbDataExists = r.rtdbDataExists])
        ELSE SetClient(c, [client[c] EXCEPT
                             !.pc = "checked", !.data = data,
                             !.available = r.available,
                             !.existingBookingsRTDB = FirestoreIds(existingBookingsRTDB),
                             !.rtdbDataExists = r.rtdbDataExists])

\* onSubmit, the read of hallBookings succeeding
OnSubmit(c) ==
  /\ client[c].pc = "form"
  /\ \E hall \in Halls, day \in Days, t \in FormChoices :
       LET data == FormData(c, hall, day, t[1], t[2])
       IN OnSubmitWith(c, data,
            RtdbBookingsForHallAndDate(hallBookings, hall, startOfDay(data.date)))
  /\ UNCHANGED <<stores, now, page, calls, approvalMail, venueBookings, dayStatus, probe>>

\* onSubmit, the read failing: getHallBookingsForDateFromRealtimeDB returns []
OnSubmitReadFails(c) ==
  /\ client[c].pc = "form"
  /\ \E hall \in Halls, day \in Days, t \in FormChoices :
       OnSubmitWith(c, FormData(c, hall, day, t[1], t[2]), <<>>)
  /\ UNCHANGED <<stores, now, page, calls, approvalMail, venueBookings, dayStatus, probe>>

\* onSubmit: await authorizeBooking(aiInput), then onSubmitSuccess(result)
AuthorizeBooking(c) ==
  /\ client[c].pc = "checked"
  /\ \E requires \in BOOLEAN :
       SetClient(c, [client[c] EXCEPT !.pc = "authorized",
                                      !.requiresDirectorApproval = requires])
  /\ UNCHANGED <<stores, now, page, calls, approvalMail, venueBookings, dayStatus, probe>>

\* authorizeBooking throwing, the error shown, and the submission going on
AuthorizeBookingFailsAndGoesOn(c) ==
  /\ client[c].pc = "checked"
  /\ SetClient(c, [client[c] EXCEPT !.pc = "authorized", !.error = "ClassifierUnavailable"])
  /\ UNCHANGED <<stores, now, page, calls, approvalMail, venueBookings, dayStatus, probe>>

\* onSubmit: authorizeBooking throws
AuthorizeBookingFails(c) ==
  /\ client[c].pc = "checked"
  /\ SetClient(c, Failed(c, "ClassifierUnavailable"))
  /\ UNCHANGED <<stores, now, page, calls, approvalMail, venueBookings, dayStatus, probe>>

\* the classifier's reason string, stored as aiReason
AiReason(requires) == IF requires THEN "needs review" ELSE "routine"

\* tokenValue = crypto.randomBytes(32).toString('hex'), then savePendingBooking step 1:
\* addDoc. The token is whatever the draw gives; nothing compares it with stored ones
SaveAddDoc(c) ==
  /\ client[c].pc = "authorized"
  /\ \E tokenValue \in Tokens :
       fs' = (c :> FsDocument(client[c].data, tokenValue, UserOf(c),
                              AiReason(client[c].requiresDirectorApproval), now)) @@ fs
  /\ now' = now + 1
  /\ SetClient(c, [client[c] EXCEPT !.pc = "fsSaved"])
  /\ UNCHANGED <<hallBookings, userBookings, page, calls, approvalMail,
                 venueBookings, dayStatus, probe>>

\* addDoc rejecting after the mirror record was already written
SaveAddDocFailsAfterMirror(c) ==
  /\ client[c].pc = "authorized"
  /\ hallBookings' = (c :> RtdbBookingData(c, client[c].data, UserOf(c),
                        AiReason(client[c].requiresDirectorApproval), now)) @@ hallBookings
  /\ SetClient(c, Failed(c, "StorageUnavailable"))
  /\ UNCHANGED <<fs, userBookings, now, page, calls, approvalMail,
                 venueBookings, dayStatus, probe>>

\* addDoc rejects: the catch rethrows
SaveAddDocFails(c) ==
  /\ client[c].pc = "authorized"
  /\ SetClient(c, Failed(c, "StorageUnavailable"))
  /\ UNCHANGED <<stores, now, page, calls, approvalMail, venueBookings, dayStatus, probe>>

\* the mirror record written without waiting for addDoc
SaveHallBookingBeforeAddDoc(c) ==
  /\ client[c].pc = "authorized"
  /\ hallBookings' = (c :> RtdbBookingData(c, client[c].data, UserOf(c),
                        AiReason(client[c].requiresDirectorApproval), now)) @@ hallBookings
  /\ SetClient(c, [client[c] EXCEPT !.pc = "rtdbSaved"])
  /\ UNCHANGED <<fs, userBookings, now, page, calls, approvalMail,
                 venueBookings, dayStatus, probe>>

\* savePendingBooking step 2: set hallBookings/<bookingId>
SaveHallBooking(c) ==
  /\ client[c].pc = "fsSaved"
  /\ hallBookings' = (c :> RtdbBookingData(c, client[c].data, UserOf(c),
                        AiReason(client[c].requiresDirectorApproval), now)) @@ hallBookings
  /\ SetClient(c, [client[c] EXCEPT !.pc = "rtdbSaved"])
  /\ UNCHANGED <<fs, userBookings, now, page, calls, approvalMail,
                 venueBookings, dayStatus, probe>>

SaveHallBookingFails(c) ==
  /\ client[c].pc = "fsSaved"
  /\ SetClient(c, Failed(c, "MirrorUnavailable"))
  /\ UNCHANGED <<stores, now, page, calls, approvalMail, venueBookings, dayStatus, probe>>

\* savePendingBooking step 3: set users/<userId>/bookings/<bookingId>, return bookingId
SaveUserBooking(c) ==
  /\ client[c].pc = "rtdbSaved"
  /\ userBookings' = (c :> ([requestDate |-> now] @@
                        RtdbBookingData(c, client[c].data, UserOf(c),
                          AiReason(client[c].requiresDirectorApproval), now))) @@ userBookings
  /\ SetClient(c, [client[c] EXCEPT !.pc = "saved"])
  /\ UNCHANGED <<fs, hallBookings, now, page, calls, approvalMail,
                 venueBookings, dayStatus, probe>>

SaveUserBookingFails(c) ==
  /\ client[c].pc = "rtdbSaved"
  /\ SetClient(c, Failed(c, "MirrorUnavailable"))
  /\ UNCHANGED <<stores, now, page, calls, approvalMail, venueBookings, dayStatus, probe>>

(***************************************************************************)
(* Reads of the authoritative store.                                       *)
(***************************************************************************)
\* mapDocToBookingRequest: docs written by savePendingBooking carry both Timestamps
mapDocToBookingRequest(id, data) ==
  [id |-> id,
   studentName |-> data.studentName,
   studentEmail |-> data.studentEmail,
   hallPreference |-> data.hallPreference,
   date |-> data.date,
   startTime |-> data.startTime,
   endTime |-> data.endTime,
   startTimeDate |-> data.startTimeDate,
   endTimeDate |-> data.endTimeDate,
   status |-> data.status,
   token |-> data.token,
   createdAt |-> data.createdAt,
   userId |-> data.userId,
   approvedAt |-> data.approvedAt,
   rejectedAt |-> data.rejectedAt,
   rejectionReason |-> data.rejectionReason,
   aiReason |-> data.aiReason]

MonthDays == 1..MonthLength

\* getVenueAvailabilityForMonth: the query's documents, by document id
getVenueAvailabilityForMonth(store) ==
  LET ids == SeqOfSet({id \in DOMAIN store :
                         /\ store[id].date >= DayDate(1)
                         /\ store[id].date <= DayDate(MonthLength)
                         /\ store[id].status \in {"pending", "approved"}})
  IN [i \in DOMAIN ids |-> mapDocToBookingRequest(ids[i], store[ids[i]])]

\* getHallBookingsForDate: the Firestore query for one hall and one day
getHallBookingsForDate(store, hallPreference, date) ==
  LET ids == SeqOfSet({id \in DOMAIN store :
                         /\ store[id].hallPreference = hallPreference
                         /\ store[id].date >= startOfDay(date)
                         /\ store[id].date <= startOfDay(date) + MinutesPerDay - 1
                         /\ store[id].status \in {"pending", "approved"}})
  IN [i \in DOMAIN ids |-> mapDocToBookingRequest(ids[i], store[ids[i]])]

(***************************************************************************)
(* Venue calendar.                                                         *)
(***************************************************************************)
getAllPossibleSlots ==
  [i \in 1..(OPERATIONAL_END_HOUR - OPERATIONAL_START_HOUR) |->
     [start |-> OPERATIONAL_START_HOUR + i - 1,
      end |-> OPERATIONAL_START_HOUR + i - 1 + BOOKING_DURATION_HOURS]]

ALL_POSSIBLE_SLOTS == getAllPossibleSlots

\* new Set(bookings.map(b => b.hallPreference)): first occurrences, in order
RECURSIVE HallsInOrder(_, _)
HallsInOrder(bookings, seen) ==
  IF bookings = <<>> THEN seen
  ELSE LET h == Head(bookings).hallPreference
       IN HallsInOrder(Tail(bookings),
                       IF h \in Range(seen) THEN seen ELSE Append(seen, h))

\* the halls of the bookings with no default for the empty set
getUniqueHallsWithoutDefault(bookings) == HallsInOrder(bookings, <<>>)

getUniqueHalls(bookings) ==
  LET halls == HallsInOrder(bookings, <<>>)
  IN IF Len(halls) = 0 THEN DefaultHalls ELSE halls

\* bookings.filter(...).map(...) for one hall and one day
bookingsForHallOnDay(bookings, hall, day) ==
  LET kept == SelectSeq(bookings,
                LAMBDA b : /\ isSameDay(b.startTimeDate, day)
                           /\ b.hallPreference = hall
                           /\ (b.status = "approved" \/ b.status = "pending"))
  IN [i \in DOMAIN kept |-> [start |-> kept[i].startTimeDate, end |-> kept[i].endTimeDate]]

\* for (const booking of bookingsForHallOnDay) { if (...) { isSlotAvailable = false; break } }
RECURSIVE isSlotAvailable(_, _, _)
isSlotAvailable(slotStart, slotEnd, bs) ==
  IF bs = <<>> THEN TRUE
  ELSE IF SlotConflict(slotStart, slotEnd, Head(bs)) THEN FALSE
       ELSE isSlotAvailable(slotStart, slotEnd, Tail(bs))

\* for (const slot of ALL_POSSIBLE_SLOTS) { ...; if (isSlotAvailable) { ...; break } }
RECURSIVE hasAvailableSlotInThisHall(_, _, _)
hasAvailableSlotInThisHall(slots, day, bs) ==
  IF slots = <<>> THEN FALSE
  ELSE LET slotStart == setHours(day, Head(slots).start)
           slotEnd == setHours(day, Head(slots).end)
       IN IF isSlotAvailable(slotStart, slotEnd, bs) THEN TRUE
          ELSE hasAvailableSlotInThisHall(Tail(slots), day, bs)

\* for (const hall of ALL_HALLS) { ...; if (hasAvailableSlotInThisHall) { ...; break } }
RECURSIVE isDayFullyBookedForAllHalls(_, _, _)
isDayFullyBookedForAllHalls(halls, bookings, day) ==
  IF halls = <<>> THEN TRUE
  ELSE IF hasAvailableSlotInThisHall(ALL_POSSIBLE_SLOTS, day,
                                     bookingsForHallOnDay(bookings, Head(halls), day))
       THEN FALSE
       ELSE isDayFullyBookedForAllHalls(Tail(halls), bookings, day)

\* the effect on [bookings, currentMonth]: newDayStatus, keyed by the day of the month
newDayStatus(bookings) ==
  LET ALL_HALLS == getUniqueHalls(bookings)
  IN IF Len(ALL_HALLS) = 0
     THEN [d \in MonthDays |-> "available"]
     ELSE [d \in MonthDays |->
             IF isDayFullyBookedForAllHalls(ALL_HALLS, bookings, DayDate(d))
             THEN "fully-booked" ELSE "available"]

(***************************************************************************)
(* Initial state.                                                          *)
(***************************************************************************)
InitClient ==
  [pc |-> "form", data |-> NoFormData, existingBookingsRTDB |-> <<>>,
   available |-> TRUE, rtdbDataExists |-> FALSE,
   requiresDirectorApproval |-> FALSE, bookingResult |-> FALSE, error |-> "none"]

InitPage ==
  [status |-> "loading", token |-> None, booking |-> None, processingAction |-> "none",
   rejectionReason |-> "", showRejectionInput |-> FALSE, error |-> FALSE]

FreeCall ==
  [pc |-> "free", page |-> 0, bookingId |-> 0, newStatus |-> "none",
   rejectionReason |-> None, updated |-> FALSE, snapshot |-> None, result |-> "none"]

NoProbe == [kind |-> "none"]

InitStores ==
  /\ fs = << >>
  /\ hallBookings = << >>
  /\ userBookings = << >>
  /\ now = 1
  /\ approvalMail = {}

InitSessions ==
  /\ client = [c \in Clients |-> InitClient]
  /\ page = [p \in Pages |-> InitPage]
  /\ calls = [k \in CallIds |-> FreeCall]

Init ==
  /\ InitStores
  /\ InitSessions
  /\ venueBookings = <<>>
  /\ dayStatus = newDayStatus(<<>>)   \* the effect has run on the empty prop
  /\ probe = NoProbe


(***************************************************************************)
(* Home page: handleBookingSubmit after savePendingBooking returned.        *)
(***************************************************************************)
\* sendApprovalEmail whatever the classifier answered
NotifyDirectorAlways(c) ==
  /\ client[c].pc = "saved"
  /\ approvalMail' = approvalMail \cup {fs[c].token}
  /\ SetClient(c, [client[c] EXCEPT !.pc = "notified", !.bookingResult = TRUE])
  /\ UNCHANGED <<stores, now, page, calls, venueBookings, dayStatus, probe>>

\* sendApprovalEmail when the classifier asked for the director
NotifyDirector(c) ==
  /\ client[c].pc = "saved"
  /\ approvalMail' = IF client[c].requiresDirectorApproval
                     THEN approvalMail \cup {fs[c].token} ELSE approvalMail
  /\ SetClient(c, [client[c] EXCEPT !.pc = "notified", !.bookingResult = TRUE])
  /\ UNCHANGED <<stores, now, page, calls, venueBookings, dayStatus, probe>>

NotifyDirectorFails(c) ==
  /\ client[c].pc = "saved"
  /\ client[c].requiresDirectorApproval
  /\ SetClient(c, Failed(c, "NotificationFailed"))
  /\ UNCHANGED <<stores, now, page, calls, approvalMail, venueBookings, dayStatus, probe>>

\* getUserBookings (never throws), getVenueAvailabilityForMonth, setVenueBookings; the
\* calendar's effect recomputes dayStatus from the new prop
Refetch(c) ==
  /\ client[c].pc = "notified"
  /\ venueBookings' = getVenueAvailabilityForMonth(fs)
  /\ dayStatus' = newDayStatus(venueBookings')
  /\ SetClient(c, [client[c] EXCEPT !.pc = "done"])
  /\ UNCHANGED <<stores, now, page, calls, approvalMail, probe>>

RefetchFails(c) ==
  /\ client[c].pc = "notified"
  /\ SetClient(c, Failed(c, "StorageUnavailable"))
  /\ UNCHANGED <<stores, now, page, calls, approvalMail, venueBookings, dayStatus, probe>>

(***************************************************************************)
(* Approval page.                                                          *)
(***************************************************************************)
ReasonTexts == {"", " ", "Hall closed"}

\* String.prototype.trim on the texts of the model
trim(text) == IF text = " " THEN "" ELSE text

SetPage(p, rec) == page' = [page EXCEPT ![p] = rec]

\* a lookup that drops the where clause and takes the first document of the collection
getBookingByTokenWithoutWhere(store, token) ==
  LET ids == SeqOfSet(DOMAIN store)
  IN IF ids = <<>> THEN None
     ELSE Some(mapDocToBookingRequest(ids[1], store[ids[1]]))

\* getBookingByToken: querySnapshot.docs[0] of where("token", "==", token)
getBookingByToken(store, token) ==
  LET ids == SeqOfSet({id \in DOMAIN store : store[id].token = token})
  IN IF ids = <<>> THEN None
     ELSE Some(mapDocToBookingRequest(ids[1], store[ids[1]]))

\* the effect on [token]: fetchBooking, with the page opened on some token
FetchBooking(p) ==
  /\ page[p].status = "loading"
  /\ page[p].token = None
  /\ \E token \in Tokens \cup {UnknownToken} :
       LET fetchedBooking == getBookingByToken(fs, token)
       IN SetPage(p, [page[p] EXCEPT
            !.token = Some(token),
            !.booking = fetchedBooking,
            !.status = IF IsSome(fetchedBooking)
                       THEN IF The(fetchedBooking).status = "pending"
                            THEN "pending" ELSE "already_processed"
                       ELSE "not_found"])
  /\ UNCHANGED <<stores, now, client, calls, approvalMail, venueBookings, dayStatus, probe>>

\* fetchBooking: getBookingByToken throws
FetchBookingFails(p) ==
  /\ page[p].status = "loading"
  /\ page[p].token = None
  /\ \E token \in Tokens \cup {UnknownToken} :
       SetPage(p, [page[p] EXCEPT !.token = Some(token), !.status = "error",
                                  !.error = TRUE])
  /\ UNCHANGED <<stores, now, client, calls, approvalMail, venueBookings, dayStatus, probe>>

\* the buttons of the pending view
RejectButtonEnabled(p) ==
  /\ page[p].status = "pending"
  /\ ~(page[p].processingAction = "approve")

\* an Approve button shown in every view that holds a booking
ApproveButtonInEveryView(p) ==
  /\ ~page[p].showRejectionInput
  /\ ~(page[p].processingAction = "reject")

ApproveButtonEnabled(p) ==
  /\ page[p].status = "pending"
  /\ ~page[p].showRejectionInput
  /\ ~(page[p].processingAction = "reject")

\* the lowest unused invocation record
FreeCallId == CHOOSE k \in CallIds : calls[k].pc = "free" /\ \A j \in 1..(k - 1) : calls[j].pc # "free"

HasFreeCall == \E k \in CallIds : calls[k].pc = "free"

StartCall(p, bookingId, newStatus, rejectionReason) ==
  calls' = [calls EXCEPT ![FreeCallId] =
              [pc |-> "updateDoc", page |-> p, bookingId |-> bookingId,
               newStatus |-> newStatus, rejectionReason |-> rejectionReason,
               updated |-> FALSE, snapshot |-> None, result |-> "none"]]

\* handleAction('approve') up to the call of updateBookingStatus
ClickApprove(p) ==
  /\ ApproveButtonEnabled(p)
  /\ HasFreeCall
  /\ IsSome(page[p].booking)
  /\ SetPage(p, [page[p] EXCEPT !.processingAction = "approve", !.error = FALSE])
  /\ StartCall(p, The(page[p].booking).id, "approved", None)
  /\ UNCHANGED <<stores, now, client, approvalMail, venueBookings, dayStatus, probe>>

\* handleAction('reject') while the reason input is hidden: show it
ClickReject(p) ==
  /\ RejectButtonEnabled(p)
  /\ ~page[p].showRejectionInput
  /\ SetPage(p, [page[p] EXCEPT !.showRejectionInput = TRUE, !.error = FALSE])
  /\ UNCHANGED <<stores, now, client, calls, approvalMail, venueBookings, dayStatus, probe>>

\* the reason typed before 'Confirm Rejection' (the textarea is disabled while an
\* action is processed)
Typed(p, text) == IF page[p].processingAction = "none" THEN text ELSE page[p].rejectionReason

\* handleAction('reject') with the input shown and an empty reason
ConfirmRejectEmpty(p) ==
  /\ RejectButtonEnabled(p)
  /\ page[p].showRejectionInput
  /\ \E text \in ReasonTexts :
       /\ trim(Typed(p, text)) = ""
       /\ SetPage(p, [page[p] EXCEPT !.rejectionReason = Typed(p, text), !.error = TRUE])
  /\ UNCHANGED <<stores, now, client, calls, approvalMail, venueBookings, dayStatus, probe>>

\* handleAction('reject') with the input shown and a reason
ConfirmReject(p) ==
  /\ RejectButtonEnabled(p)
  /\ page[p].showRejectionInput
  /\ HasFreeCall
  /\ IsSome(page[p].booking)
  /\ \E text \in ReasonTexts :
       /\ trim(Typed(p, text)) # ""
       /\ SetPage(p, [page[p] EXCEPT !.rejectionReason = Typed(p, text),
                                     !.processingAction = "reject", !.error = FALSE])
       /\ StartCall(p, The(page[p].booking).id, "rejected", Some(Typed(p, text)))
  /\ UNCHANGED <<stores, now, client, approvalMail, venueBookings, dayStatus, probe>>

\* the reasons such a caller passes: none, or blanks
DirectReasons == {None, Some(" ")}

\* updateBookingStatus called as a server action by a caller that holds only the id
\* of a document (an id of no document ends like UpdateDocFails)
DirectUpdate ==
  /\ HasFreeCall
  /\ \E bookingId \in DOMAIN fs, newStatus \in {"approved", "rejected"},
        reason \in DirectReasons :
       /\ newStatus = "approved" => reason = None
       /\ StartCall(0, bookingId, newStatus, reason)
  /\ UNCHANGED <<stores, now, client, page, approvalMail, venueBookings, dayStatus, probe>>

(***************************************************************************)
(* updateBookingStatus, one step per await.                                *)
(***************************************************************************)
\* rejectionReason || "No reason provided."
ReasonOrDefault(rejectionReason) ==
  IF rejectionReason = None \/ rejectionReason = Some("")
  THEN "No reason provided." ELSE The(rejectionReason)

\* updateData that also rewrites createdAt with the time of the decision
ApplyUpdateDataAndCreatedAt(data, newStatus, rejectionReason, time) ==
  IF newStatus = "approved"
  THEN [data EXCEPT !.status = newStatus, !.approvedAt = Some(time), !.createdAt = time]
  ELSE [data EXCEPT !.status = newStatus, !.rejectedAt = Some(time), !.createdAt = time,
                    !.rejectionReason = Some(ReasonOrDefault(rejectionReason))]

\* updateData applied to the document; where the store's client is set to ignore
\* undefined values, rejectionReason: undefined writes no field
ApplyUpdateData(data, newStatus, rejectionReason, time) ==
  IF newStatus = "approved"
  THEN [data EXCEPT !.status = newStatus, !.approvedAt = Some(time)]
  ELSE [data EXCEPT !.status = newStatus, !.rejectedAt = Some(time),
                    !.rejectionReason = Some(ReasonOrDefault(rejectionReason))]

\* { ...existingData, ...rtdbUpdateData }: rejectionReason: null removes the field
ApplyRtdbUpdateData(existingData, newStatus, rejectionReason, time) ==
  IF newStatus = "approved"
  THEN [existingData EXCEPT !.status = newStatus, !.approvedAt = Some(time),
                            !.rejectionReason = None]
  ELSE [existingData EXCEPT !.status = newStatus, !.rejectedAt = Some(time),
                            !.rejectionReason = Some(ReasonOrDefault(rejectionReason))]

\* handleAction after the await: on success setStatus(outcome), then
\* booking.studentId.includes('@') throws when the booking has no studentId, which
\* lands in the catch like a failed update; finally setProcessingAction(null)
Continuation(pg, newStatus, ok) ==
  LET hasStudentId == IsSome(pg.booking) /\ "studentId" \in DOMAIN The(pg.booking)
  IN IF ok /\ hasStudentId
     THEN [pg EXCEPT !.status = newStatus, !.processingAction = "none"]
     ELSE [pg EXCEPT !.status = "error", !.error = TRUE, !.processingAction = "none"]

\* the invocation returns ("ok") or throws (the error it throws) to its caller
Return(k, result) ==
  /\ calls' = [calls EXCEPT ![k].pc = "done", ![k].result = result]
  /\ IF calls[k].page = 0 THEN UNCHANGED page
     ELSE SetPage(calls[k].page,
                  Continuation(page[calls[k].page], calls[k].newStatus, result = "ok"))

\* await updateDoc(bookingRef, updateData)
UpdateDoc(k) ==
  /\ calls[k].pc = "updateDoc"
  /\ calls[k].bookingId \in DOMAIN fs
  /\ fs' = [fs EXCEPT ![calls[k].bookingId] =
              ApplyUpdateData(@, calls[k].newStatus, calls[k].rejectionReason, now)]
  /\ now' = now + 1
  /\ calls' = [calls EXCEPT ![k].pc = "rtdbGet", ![k].updated = TRUE]
  /\ UNCHANGED <<hallBookings, userBookings, client, page, approvalMail,
                 venueBookings, dayStatus, probe>>

\* updateDoc rejects: the store is unreachable or the document is gone
UpdateDocFails(k) ==
  /\ calls[k].pc = "updateDoc"
  /\ Return(k, "unavailable")
  /\ UNCHANGED <<stores, now, client, approvalMail, venueBookings, dayStatus, probe>>

\* updateDoc refuses updateData because its rejectionReason is undefined, as the
\* store's client does under its default settings
UpdateDocRefused(k) ==
  /\ calls[k].pc = "updateDoc"
  /\ calls[k].newStatus = "approved"
  /\ Return(k, "invalid-argument")
  /\ UNCHANGED <<stores, now, client, approvalMail, venueBookings, dayStatus, probe>>

\* await getRealtimeDB(hallBookingRtdbRef)
RtdbGet(k) ==
  /\ calls[k].pc = "rtdbGet"
  /\ calls' = [calls EXCEPT
       ![k].pc = "rtdbSet",
       ![k].snapshot = IF calls[k].bookingId \in DOMAIN hallBookings
                       THEN Some(hallBookings[calls[k].bookingId]) ELSE None]
  /\ UNCHANGED <<stores, now, client, page, approvalMail, venueBookings, dayStatus, probe>>

RtdbGetFails(k) ==
  /\ calls[k].pc = "rtdbGet"
  /\ Return(k, "unavailable")
  /\ UNCHANGED <<stores, now, client, approvalMail, venueBookings, dayStatus, probe>>

\* await setRealtimeDB(hallBookingRtdbRef, {...}) when the snapshot exists; then the
\* users/<uid>/bookings block, whose first statement reads the undeclared
\* bookingDetails and is caught by the inner try; then the invocation returns
RtdbSet(k) ==
  /\ calls[k].pc = "rtdbSet"
  /\ hallBookings' =
       IF IsSome(calls[k].snapshot)
       THEN (calls[k].bookingId :>
               ApplyRtdbUpdateData(The(calls[k].snapshot), calls[k].newStatus,
                                   calls[k].rejectionReason, now)) @@ hallBookings
       ELSE hallBookings
  /\ Return(k, "ok")
  /\ UNCHANGED <<fs, userBookings, now, client, approvalMail, venueBookings,
                 dayStatus, probe>>

RtdbSetFails(k) ==
  /\ calls[k].pc = "rtdbSet"
  /\ IsSome(calls[k].snapshot)
  /\ Return(k, "unavailable")
  /\ UNCHANGED <<stores, now, client, approvalMail, venueBookings, dayStatus, probe>>

(***************************************************************************)
(* The system.                                                             *)
(***************************************************************************)
\* the steps of one booking-form session
SessionStep(c) ==
  \/ SubmitInvalid(c)
  \/ OnSubmit(c)
  \/ OnSubmitReadFails(c)
  \/ AuthorizeBooking(c)
  \/ AuthorizeBookingFails(c)
  \/ SaveAddDoc(c)
  \/ SaveAddDocFails(c)
  \/ SaveHallBooking(c)
  \/ SaveHallBookingFails(c)
  \/ SaveUserBooking(c)
  \/ SaveUserBookingFails(c)
  \/ NotifyDirector(c)
  \/ NotifyDirectorFails(c)
  \/ Refetch(c)
  \/ RefetchFails(c)

ClientStep == \E c \in Clients : SessionStep(c)

\* the steps of one approval-page session
PageSessionStep(p) ==
  \/ FetchBooking(p)
  \/ FetchBookingFails(p)
  \/ ClickApprove(p)
  \/ ClickReject(p)
  \/ ConfirmRejectEmpty(p)
  \/ ConfirmReject(p)

PageStep == \E p \in Pages : PageSessionStep(p)

CallStep ==
  \E k \in CallIds :
    \/ UpdateDoc(k)
    \/ UpdateDocFails(k)
    \/ UpdateDocRefused(k)
    \/ RtdbGet(k)
    \/ RtdbGetFails(k)
    \/ RtdbSet(k)
    \/ RtdbSetFails(k)

Next == ClientStep \/ PageStep \/ CallStep \/ DirectUpdate

Spec == Init /\ [][Next]_vars

(***************************************************************************)
(* Scenarios of the system: the create flows alone, and the decisions on a  *)
(* reservation that a finished create flow left behind.                    *)
(***************************************************************************)
NextCreate == ClientStep

SpecCreate == Init /\ [][NextCreate]_vars

\* the request of the specification's scenarios: Main Hall, 09:00-10:00
ScenarioData(c) == FormData(c, "Main Hall", 1, HM(9, 0), HM(10, 0))

\* session 1 has run its whole flow for ScenarioData, the classifier asking for the
\* director; nothing else has happened
InitDecide ==
  /\ fs = 1 :> FsDocument(ScenarioData(1), TokenOf(1), UserOf(1), AiReason(TRUE), 1)
  /\ hallBookings = 1 :> RtdbBookingData(1, ScenarioData(1), UserOf(1), AiReason(TRUE), 2)
  /\ userBookings = 1 :> ([requestDate |-> 2] @@
                           RtdbBookingData(1, ScenarioData(1), UserOf(1), AiReason(TRUE), 2))
  /\ now = 2
  /\ approvalMail = {TokenOf(1)}
  /\ client = [c \in Clients |->
                IF c = 1
                THEN [InitClient EXCEPT !.pc = "done", !.data = ScenarioData(1),
                                        !.requiresDirectorApproval = TRUE,
                                        !.bookingResult = TRUE]
                ELSE InitClient]
  /\ page = [p \in Pages |-> InitPage]
  /\ calls = [k \in CallIds |-> FreeCall]
  /\ venueBookings = getVenueAvailabilityForMonth(fs)
  /\ dayStatus = newDayStatus(venueBookings)
  /\ probe = NoProbe

NextDecide == PageStep \/ CallStep \/ DirectUpdate

SpecDecide == InitDecide /\ [][NextDecide]_vars

\* One session and one direct invocation of updateBookingStatus: the write paths
NextWrites ==
  \/ SessionStep(1)
  \/ DirectUpdate /\ \A k \in CallIds : calls[k].pc = "free"
  \/ CallStep

SpecWrites == Init /\ [][NextWrites]_vars

\* savePendingBooking called as a server action, without the form: the start and end
\* times such a caller passes (a valid hour, an inverted and an empty interval, hours
\* before 09:00 and after 17:00)
DirectTimes ==
  {<<HM(9, 0), HM(10, 0)>>, <<HM(10, 0), HM(9, 30)>>, <<HM(10, 0), HM(10, 0)>>,
   <<HM(8, 0), HM(9, 0)>>, <<HM(17, 0), HM(18, 0)>>}

\* savePendingBooking(bookingDetails, token, userId, aiReason) up to its first await:
\* the Date arithmetic, then addDoc of whatever it was given
DirectSavePendingBooking(c) ==
  /\ client[c].pc = "form"
  /\ \E hall \in Halls, day \in Days, times \in DirectTimes, tokenValue \in Tokens :
       LET bookingDetails == FormData(c, hall, day, times[1], times[2])
       IN /\ fs' = (c :> FsDocument(bookingDetails, tokenValue, UserOf(c),
                                    AiReason(FALSE), now)) @@ fs
          /\ SetClient(c, [client[c] EXCEPT !.pc = "fsSaved", !.data = bookingDetails])
  /\ now' = now + 1
  /\ UNCHANGED <<hallBookings, userBookings, page, calls, approvalMail,
                 venueBookings, dayStatus, probe>>

\* addDoc rejects: the catch rethrows to the caller
DirectSavePendingBookingFails(c) ==
  /\ client[c].pc = "form"
  /\ SetClient(c, Failed(c, "StorageUnavailable"))
  /\ UNCHANGED <<stores, now, page, calls, approvalMail, venueBookings, dayStatus, probe>>

\* savePendingBooking invoked directly by each caller, through to its return
NextDirectCreate ==
  \E c \in Clients :
    \/ DirectSavePendingBooking(c)
    \/ DirectSavePendingBookingFails(c)
    \/ SaveHallBooking(c)
    \/ SaveHallBookingFails(c)
    \/ SaveUserBooking(c)
    \/ SaveUserBookingFails(c)

SpecDirectCreate == Init /\ [][NextDirectCreate]_vars

\* Two sessions in turn: the second opens its form when the first has ended
NextSessionsInTurn ==
  \/ SessionStep(1)
  \/ client[1].pc \in {"done", "failed"} /\ SessionStep(2)

SpecSessionsInTurn == Init /\ [][NextSessionsInTurn]_vars

\* One approval page, opened on any token, beside one direct invocation of
\* updateBookingStatus, on the reservation of InitDecide
NextOnePage ==
  \/ PageSessionStep(1)
  \/ DirectUpdate /\ \A k \in CallIds : calls[k].pc = "free"
  \/ CallStep

SpecOnePage == InitDecide /\ [][NextOnePage]_vars

\* an approval page opened by the director from a mail: the token of its URL is one
\* that sendApprovalEmail was given
PageOpenedFromMail(p) ==
  /\ PageSessionStep(p)
  /\ page[p].token = None => page'[p].token \in {Some(token) : token \in approvalMail}

\* Two sessions in turn, then one approval page opened from a mail
NextDelivered ==
  \/ SessionStep(1)
  \/ client[1].pc \in {"done", "failed"} /\ SessionStep(2)
  \/ client[2].pc \in {"done", "failed"} /\ PageOpenedFromMail(1)
  \/ CallStep

SpecDelivered == Init /\ [][NextDelivered]_vars

\* InitDecide is a state SpecCreate reaches: SpecCreate violates this invariant
NotYetInitDecide == ~InitDecide

(***************************************************************************)
(* The conflict tests applied alone, to every pair of intervals the form   *)
(* can produce.                                                            *)
(***************************************************************************)
\* intervals of the form's selects that the schema accepts
FormIntervals ==
  {<<startSlots[i], endSlots[j]>> : i \in DOMAIN startSlots, j \in DOMAIN endSlots}

ValidFormIntervals ==
  {t \in FormIntervals :
     SchemaRefine(FormData(0, "Main Hall", 1, t[1], t[2]))}

InitConflict ==
  /\ InitStores
  /\ InitSessions
  /\ venueBookings = <<>>
  /\ dayStatus = newDayStatus(<<>>)
  /\ \E e \in ValidFormIntervals, c \in ValidFormIntervals :
       probe = [kind |-> "conflict", existing |-> e, candidate |-> c,
                applied |-> FALSE, form |-> FALSE, calendar |-> FALSE]

\* the form's test on the candidate against the existing booking as the mirror holds
\* it, and the calendar's test on the candidate as a slot against the booking as the
\* calendar maps it
ApplyConflictTests ==
  /\ probe.kind = "conflict"
  /\ ~probe.applied
  /\ LET existingData == FormData(1, "Main Hall", 1, probe.existing[1], probe.existing[2])
         rtdbBooking == RtdbBookingData(1, existingData, UserOf(1), "routine", now)
         fsBooking == mapDocToBookingRequest(1,
                        FsDocument(existingData, TokenOf(1), UserOf(1), "routine", now))
         newBookingStart == TimeOnDay(DayDate(1), probe.candidate[1])
         newBookingEnd == TimeOnDay(DayDate(1), probe.candidate[2])
     IN probe' = [probe EXCEPT
          !.applied = TRUE,
          !.form = AnyFormConflict(<<rtdbBooking>>, newBookingStart, newBookingEnd),
          !.calendar = ~isSlotAvailable(newBookingStart, newBookingEnd,
                          bookingsForHallOnDay(<<fsBooking>>, "Main Hall", DayDate(1)))]
  /\ UNCHANGED <<stores, now, client, page, calls, approvalMail, venueBookings, dayStatus>>

NextConflict == ApplyConflictTests

SpecConflict == InitConflict /\ [][NextConflict]_vars

(***************************************************************************)
(* The calendar applied alone to lists of active bookings.                 *)
(***************************************************************************)
ProbeIntervals ==
  {<<HM(9, 0), HM(10, 0)>>, <<HM(10, 30), HM(11, 30)>>, <<HM(11, 0), HM(12, 0)>>,
   <<HM(10, 0), HM(16, 0)>>, <<HM(10, 0), HM(15, 0)>>, <<HM(12, 0), HM(16, 0)>>,
   <<HM(9, 0), HM(9, 30)>>}

\* what getVenueAvailabilityForMonth can return for one document
ProbeBookings ==
  {[mapDocToBookingRequest(1,
      FsDocument(FormData(1, hall, day, t[1], t[2]), TokenOf(1), UserOf(1), "routine", 1))
    EXCEPT !.status = st] :
     hall \in Halls, day \in MonthDays, t \in ProbeIntervals, st \in {"pending", "approved"}}

ProbeSeq ==
  LET pick[S \in SUBSET ProbeBookings] ==
        IF S = {} THEN <<>>
        ELSE LET x == CHOOSE y \in S : TRUE IN <<x>> \o pick[S \ {x}]
  IN pick[ProbeBookings]

\* index lists i1 < i2 < ... of at most n bookings
RECURSIVE Increasing(_, _)
Increasing(n, from) ==
  IF n = 0 THEN {<<>>}
  ELSE {<<>>} \cup
       UNION {{<<i>> \o rest : rest \in Increasing(n - 1, i + 1)} :
                i \in from..Cardinality(ProbeBookings)}

InitCalendar ==
  /\ InitStores
  /\ InitSessions
  /\ dayStatus = newDayStatus(<<>>)
  /\ probe = [kind |-> "calendar", applied |-> FALSE]
  /\ \E idx \in Increasing(MaxProbeBookings, 1) :
       venueBookings = [i \in DOMAIN idx |-> [ProbeSeq[idx[i]] EXCEPT !.id = i]]

\* the calendar's effect on [bookings, currentMonth]
CalendarEffect ==
  /\ probe.kind = "calendar"
  /\ ~probe.applied
  /\ dayStatus' = newDayStatus(venueBookings)
  /\ probe' = [probe EXCEPT !.applied = TRUE]
  /\ UNCHANGED <<stores, now, client, page, calls, approvalMail, venueBookings>>

NextCalendar == CalendarEffect

SpecCalendar == InitCalendar /\ [][NextCalendar]_vars

(***************************************************************************)
(* The calendar's handleDateSelect, on the status computed from at most one *)
(* booking.                                                                *)
(***************************************************************************)
\* what the day picker hands to onSelect: undefined when the selected day is clicked
\* again, or the date of a day of the grid (the grid also shows a day past the month)
SelectableDates == {None} \cup {Some(DayDate(d)) : d \in 1..(MonthLength + 1)}

\* dayStatus[format(date, 'yyyy-MM-dd')]
StatusOfDate(date) ==
  LET dateKey == date \div MinutesPerDay
  IN IF dateKey \in DOMAIN dayStatus THEN dayStatus[dateKey] ELSE NoValue

InitSelect ==
  /\ InitStores
  /\ InitSessions
  /\ dayStatus = newDayStatus(<<>>)
  /\ \E onDateSelect \in BOOLEAN :
       probe = [kind |-> "calendar", applied |-> FALSE, onDateSelect |-> onDateSelect,
                date |-> None, toast |-> FALSE, passed |-> None]
  /\ \E idx \in Increasing(1, 1) :
       venueBookings = [i \in DOMAIN idx |-> [ProbeSeq[idx[i]] EXCEPT !.id = i]]

\* a handler that hands every date to the callback
handleDateSelectOfAnyDay(date) ==
  /\ probe.kind = "calendar"
  /\ "passed" \in DOMAIN probe
  /\ probe' = IF date = None
              THEN [probe EXCEPT !.date = date, !.toast = FALSE, !.passed = None]
              ELSE [probe EXCEPT !.date = date, !.toast = FALSE,
                                 !.passed = IF probe.onDateSelect THEN date ELSE None]
  /\ UNCHANGED <<stores, now, client, page, calls, approvalMail, venueBookings, dayStatus>>

\* handleDateSelect: the toast, or onDateSelect(date) when the prop was given
handleDateSelect(date) ==
  /\ probe.kind = "calendar"
  /\ "passed" \in DOMAIN probe
  /\ probe' = IF date = None
              THEN [probe EXCEPT !.date = date, !.toast = FALSE, !.passed = None]
              ELSE IF StatusOfDate(The(date)) = "fully-booked"
                   THEN [probe EXCEPT !.date = date, !.toast = TRUE, !.passed = None]
                   ELSE [probe EXCEPT !.date = date, !.toast = FALSE,
                                      !.passed = IF probe.onDateSelect THEN date ELSE None]
  /\ UNCHANGED <<stores, now, client, page, calls, approvalMail, venueBookings, dayStatus>>

NextSelect ==
  \/ CalendarEffect
  \/ \E date \in SelectableDates : handleDateSelect(date)

SpecSelect == InitSelect /\ [][NextSelect]_vars

(***************************************************************************)
(* Properties.                                                             *)
(***************************************************************************)
MinuteOfDay(t) == t.h * 60 + t.m

\* the buffer rule on two intervals of one day, in minutes of the day
BufferedOverlap(aStart, aEnd, bStart, bEnd) ==
  aStart < bEnd + 60 /\ bStart - 60 < aEnd

IsActive(doc) == doc.status \in {"pending", "approved"}

\* the invocation ran to its end without the stores being unreachable
Decided(k) == calls[k].pc = "done" /\ calls[k].result # "unavailable"

\* C1: of two finished decisions taken on approval pages for the same reservation, one
\* approving and one rejecting, exactly one wrote the authoritative store and the
\* other was told AlreadyDecided.
C1_ExactlyOneDecisionCommits ==
  \A k1 \in CallIds, k2 \in CallIds :
    (/\ k1 # k2
     /\ calls[k1].page # 0 /\ calls[k2].page # 0
     /\ calls[k1].bookingId = calls[k2].bookingId
     /\ calls[k1].newStatus = "approved" /\ calls[k2].newStatus = "rejected"
     /\ Decided(k1) /\ Decided(k2))
    => \/ calls[k1].updated /\ ~calls[k2].updated /\ calls[k2].result = "AlreadyDecided"
       \/ calls[k2].updated /\ ~calls[k1].updated /\ calls[k1].result = "AlreadyDecided"

C3_NoBufferedOverlapStored ==
  \A i \in DOMAIN fs, j \in DOMAIN fs :
    (/\ i # j
     /\ IsActive(fs[i]) /\ IsActive(fs[j])
     /\ fs[i].hallPreference = fs[j].hallPreference
     /\ fs[i].date = fs[j].date)
    => ~BufferedOverlap(MinuteOfDay(fs[i].startTime), MinuteOfDay(fs[i].endTime),
                        MinuteOfDay(fs[j].startTime), MinuteOfDay(fs[j].endTime))

\* the session's availability check has passed
PassedCheck(c) ==
  client[c].pc # "form" /\ client[c].error \notin {"ValidationError", "Conflict"}

\* C4: of two sessions that both passed the availability check with requests for the
\* same hall and day that overlap under the buffer, at most one has its reservation
\* committed to the authoritative store.
C4_AtMostOneOverlappingCreateCommits ==
  \A c1 \in Clients, c2 \in Clients :
    (/\ c1 # c2
     /\ PassedCheck(c1) /\ PassedCheck(c2)
     /\ client[c1].data.hallPreference = client[c2].data.hallPreference
     /\ client[c1].data.date = client[c2].data.date
     /\ BufferedOverlap(MinuteOfDay(client[c1].data.startTime),
                        MinuteOfDay(client[c1].data.endTime),
                        MinuteOfDay(client[c2].data.startTime),
                        MinuteOfDay(client[c2].data.endTime)))
    => ~(c1 \in DOMAIN fs /\ c2 \in DOMAIN fs)

\* C5: the form's test and the calendar's test of a candidate against an existing
\* interval are true exactly when candidate.start < existing.end + 1h and
\* existing.start - 1h < candidate.end.
C5_ConflictIffBufferedOverlap ==
  (probe.kind = "conflict" /\ probe.applied)
    => LET expected == BufferedOverlap(MinuteOfDay(probe.candidate[1]),
                                       MinuteOfDay(probe.candidate[2]),
                                       MinuteOfDay(probe.existing[1]),
                                       MinuteOfDay(probe.existing[2]))
       IN probe.form = expected /\ probe.calendar = expected

\* C5 witness: a candidate starting exactly one hour after the existing end was
\* tested and does not conflict
C5_BoundaryTested ==
  /\ probe.kind = "conflict" /\ probe.applied
  /\ MinuteOfDay(probe.candidate[1]) = MinuteOfDay(probe.existing[2]) + 60
  /\ ~probe.form /\ ~probe.calendar

\* C6: an updateBookingStatus whose outcome is the status already stored leaves the
\* stored reservation as it was (status, timestamps and reason).
C6_SameOutcomeKeepsDecision ==
  [][\A k \in CallIds :
       (UpdateDoc(k) /\ fs[calls[k].bookingId].status = calls[k].newStatus)
         => fs'[calls[k].bookingId] = fs[calls[k].bookingId]]_vars

\* C7: an updateBookingStatus that reaches the store with an outcome other than the
\* decision already stored is refused as AlreadyDecided, and the stored status and
\* reason stay.
C7_OtherOutcomeIsRefused ==
  [][\A k \in CallIds :
       (/\ UpdateDoc(k) \/ UpdateDocRefused(k)
        /\ fs[calls[k].bookingId].status \notin {"pending", calls[k].newStatus})
         => /\ fs'[calls[k].bookingId].status = fs[calls[k].bookingId].status
            /\ fs'[calls[k].bookingId].rejectionReason
                 = fs[calls[k].bookingId].rejectionReason
            /\ calls'[k].result = "AlreadyDecided"]_vars

\* C8: every change of a stored status is made by an invocation that came from an
\* approval page holding the reservation's token and whose copy of the reservation is
\* the stored, still pending, one.
C8_StatusChangeNeedsValidatedToken ==
  [][\A id \in DOMAIN fs :
       fs'[id].status # fs[id].status
         => \E k \in CallIds :
              /\ UpdateDoc(k)
              /\ calls[k].bookingId = id
              /\ calls[k].page # 0
              /\ page[calls[k].page].token = Some(fs[id].token)
              /\ The(page[calls[k].page].booking) = mapDocToBookingRequest(id, fs[id])
              /\ fs[id].status = "pending"]_vars

\* C9: a successful availability read for (hall, day) returns exactly the reservations
\* that the authoritative store holds for that hall and day as pending or approved.
C9_CheckReadsAuthoritativeActive ==
  [][\A c \in Clients :
       OnSubmit(c)
         => Range(client'[c].existingBookingsRTDB)
              = {id \in DOMAIN fs :
                   /\ fs[id].hallPreference = client'[c].data.hallPreference
                   /\ fs[id].date = startOfDay(client'[c].data.date)
                   /\ IsActive(fs[id])}]_vars

\* the halls the calendar names as its halls
ConfiguredHalls == {"Main Hall", "Seminar Room A", "Conference Room B"}

\* hour h to h + 1 of day d is free of conflicts on the hall
SlotFree(hall, d, h) ==
  \A i \in DOMAIN venueBookings :
    (/\ venueBookings[i].hallPreference = hall
     /\ venueBookings[i].date = d * 1440
     /\ IsActive(venueBookings[i]))
    => ~BufferedOverlap(h * 60, (h + 1) * 60,
                        MinuteOfDay(venueBookings[i].startTime),
                        MinuteOfDay(venueBookings[i].endTime))

\* C10: the calendar marks a day fully-booked exactly when no configured hall has a
\* conflict-free 1-hour slot starting on the hour from 09:00 to 16:00, and available
\* otherwise.
C10_FullyBookedIffNoFreeSlot ==
  (probe.kind = "calendar" /\ probe.applied)
    => \A d \in MonthDays :
         dayStatus[d] = IF \A hall \in ConfiguredHalls : \A h \in 9..16 : ~SlotFree(hall, d, h)
                        THEN "fully-booked" ELSE "available"

\* C11: when the mirror write or the per-requester index write of savePendingBooking
\* fails after addDoc succeeded, the session does not fail: no error reaches the caller.
C11_MirrorFailureNotPropagated ==
  [][\A c \in Clients :
       (SaveHallBookingFails(c) \/ SaveUserBookingFails(c))
         => client'[c].pc # "failed" /\ client'[c].error = "none"]_vars


\* C12: when the read or the write of the mirror record fails after updateDoc changed
\* the document, updateBookingStatus still returns normally and the decision stays
\* stored.
C12_DecideSurvivesMirrorFailure ==
  [][\A k \in CallIds :
       (RtdbGetFails(k) \/ RtdbSetFails(k))
         => /\ calls'[k].result = "ok"
            /\ fs' = fs]_vars


\* invocation k is the only one made so far and has returned normally
OnlyCallReturned(k) ==
  /\ calls[k].pc = "done" /\ calls[k].result = "ok"
  /\ \A j \in CallIds \ {k} : calls[j].pc = "free"

\* C13: after the only updateBookingStatus made has returned normally, the mirror
\* record and the per-requester entry of the reservation carry the status it wrote to
\* the authoritative store.
C13_MirrorsCarryDecidedStatus ==
  \A k \in CallIds :
    OnlyCallReturned(k)
      => LET id == calls[k].bookingId
         IN /\ fs[id].status = calls[k].newStatus
            /\ id \in DOMAIN hallBookings => hallBookings[id].status = calls[k].newStatus
            /\ id \in DOMAIN userBookings => userBookings[id].status = calls[k].newStatus


\* getUserBookings: the entries under users/<userId>/bookings, with their dates parsed
getUserBookings(store, userId) ==
  {LET booking == store[id]
       dateObj == parseISO(booking.date)
   IN [booking EXCEPT !.date = dateObj]
       @@ [startTimeDate |-> TimeOnDay(dateObj, booking.startTime),
           endTimeDate |-> TimeOnDay(dateObj, booking.endTime)]
   : id \in {i \in DOMAIN store : store[i].userId = userId}}

\* what a list of reservations shows of the decisions
DecisionView(id, r) == <<id, r.status, r.approvedAt, r.rejectedAt, r.rejectionReason>>

\* C14: once an updateBookingStatus has returned normally, getUserBookings shows for
\* each requester exactly the requester's reservations of the authoritative store, with
\* the status, decision timestamps and reason stored there.
C14_ListShowsAuthoritativeDecision ==
  \A k \in CallIds :
    OnlyCallReturned(k)
      => \A c \in Clients :
           {DecisionView(b.firestoreId, b) : b \in getUserBookings(userBookings, UserOf(c))}
             = {DecisionView(id, fs[id]) : id \in {i \in DOMAIN fs : fs[i].userId = UserOf(c)}}


\* C15: when updateBookingStatus returns normally to an approval page, the page ends in
\* the decided status whatever becomes of the confirmation to the requester, and the
\* stored decision stays.
C15_NotificationFailureKeepsSuccess ==
  [][\A k \in CallIds :
       (RtdbSet(k) /\ calls[k].page # 0)
         => /\ page'[calls[k].page].status = calls[k].newStatus
            /\ fs' = fs]_vars


\* the reason handed to an invocation is absent, empty or blank
EmptyReason(rejectionReason) ==
  rejectionReason = None \/ trim(The(rejectionReason)) = ""

\* C16: no updateBookingStatus that rejects with an absent, empty or blank reason writes
\* the authoritative store.
C16_RejectionNeedsReason ==
  \A k \in CallIds :
    (calls[k].newStatus = "rejected" /\ EmptyReason(calls[k].rejectionReason))
      => ~calls[k].updated


C18_TokensAreUnique ==
  \A i \in DOMAIN fs, j \in DOMAIN fs :
    i # j => fs[i].token # fs[j].token


\* C19: every mirror record and every per-requester entry is stored under the id of a
\* reservation of the authoritative store and names that id, and a per-requester entry
\* exists only where the mirror record was written before it.
C19_MirrorsFollowAuthoritative ==
  /\ \A id \in DOMAIN hallBookings :
       id \in DOMAIN fs /\ hallBookings[id].firestoreId = id
  /\ \A id \in DOMAIN userBookings :
       /\ id \in DOMAIN fs /\ userBookings[id].firestoreId = id
       /\ id \in DOMAIN hallBookings

\* C19 witness: a create wrote all three records and an updateBookingStatus has since
\* rewritten the mirror record
C19_CreateWroteAllThree ==
  \E c \in Clients :
    /\ c \in DOMAIN fs /\ c \in DOMAIN hallBookings /\ c \in DOMAIN userBookings
    /\ hallBookings[c].status # "pending"

\* C20: a failed write to the authoritative store ends the operation with an error and
\* changes no store: a failed addDoc leaves no record of the request anywhere, a failed
\* updateDoc leaves the document and both mirrors as they were; the failed session and
\* the returned invocation take no further step.
C20_FailedWriteChangesNothing ==
  [][/\ \A c \in Clients :
          /\ SaveAddDocFails(c)
               => /\ stores' = stores
                  /\ client'[c].pc = "failed" /\ client'[c].error = "StorageUnavailable"
                  /\ c \notin DOMAIN fs' \cup DOMAIN hallBookings' \cup DOMAIN userBookings'
          /\ client[c].pc = "failed" => client'[c] = client[c]
     /\ \A k \in CallIds :
          /\ (UpdateDocFails(k) \/ UpdateDocRefused(k))
               => /\ stores' = stores
                  /\ calls'[k].pc = "done" /\ calls'[k].result # "ok"
                  /\ ~calls'[k].updated
          /\ calls[k].pc = "done" => calls'[k] = calls[k]]_vars

\* C20 witness: the session stored its reservation, the update of its status failed at
\* the authoritative store, and the reservation is pending in all three stores
C20_FailedDecideLeftPending ==
  \E k \in CallIds :
    /\ calls[k].pc = "done" /\ calls[k].result = "unavailable" /\ ~calls[k].updated
    /\ calls[k].bookingId \in DOMAIN hallBookings \cap DOMAIN userBookings
    /\ fs[calls[k].bookingId].status = "pending"
    /\ hallBookings[calls[k].bookingId].status = "pending"
    /\ userBookings[calls[k].bookingId].status = "pending"


\* C21: a failure of the per-month read that feeds the calendar, or of the per-hall and
\* day read that feeds the availability check, gives its caller an empty result and no
\* error.
C21_AdvisoryReadFailureIsEmpty ==
  [][\A c \in Clients :
       /\ RefetchFails(c)
            => client'[c].pc # "failed" /\ client'[c].error = "none" /\ venueBookings' = <<>>
       /\ OnSubmitReadFails(c)
            => client'[c].existingBookingsRTDB = <<>> /\ client'[c].error = "none"]_vars


\* authorizeBooking has been called in the session
ClassifierInvoked(c) == PassedCheck(c) /\ client[c].pc # "checked"

\* the request of the session is within the buffer of a booking its read returned
ConflictsWithRead(c) ==
  \E i \in Range(client[c].existingBookingsRTDB) :
    BufferedOverlap(MinuteOfDay(client[c].data.startTime), MinuteOfDay(client[c].data.endTime),
                    MinuteOfDay(hallBookings[i].startTime), MinuteOfDay(hallBookings[i].endTime))

\* C22: a session whose authorizeBooking failed shows the error, keeps no booking result
\* and has no record in any store; and authorizeBooking is called only for requests that
\* do not conflict with the bookings the availability read returned, the conflicting
\* ones having ended with Conflict.
C22_ClassifierFailureCreatesNothing ==
  \A c \in Clients :
    /\ client[c].error = "ClassifierUnavailable"
         => /\ client[c].pc = "failed" /\ ~client[c].bookingResult
            /\ c \notin DOMAIN fs \cup DOMAIN hallBookings \cup DOMAIN userBookings
    /\ ClassifierInvoked(c) => ~ConflictsWithRead(c)
    /\ client[c].error = "Conflict" <=> (client[c].pc # "form" /\ SchemaRefine(client[c].data)
                                          /\ ConflictsWithRead(c))

\* C22 witness: a session whose read returned another session's booking passed the
\* check and then ended on a failed classifier
C22_ClassifierFailedAfterPassedCheck ==
  \E c \in Clients :
    /\ client[c].error = "ClassifierUnavailable"
    /\ client[c].existingBookingsRTDB # <<>>
    /\ ~ConflictsWithRead(c)
    /\ \E d \in DOMAIN fs : d # c


\* the page was opened on a token that no stored document carries, and its fetch returned
OpenedOnUnmatchedToken(p) ==
  /\ IsSome(page[p].token)
  /\ \A id \in DOMAIN fs : fs[id].token # The(page[p].token)
  /\ page[p].status # "error"

\* C23: an approval page opened on a token that matches no reservation shows not_found,
\* holds no booking, and never invokes updateBookingStatus: no invocation belongs to it,
\* so every store and the set of sent mails are as the other callers left them.
C23_UnmatchedTokenIsNotFound ==
  \A p \in Pages :
    OpenedOnUnmatchedToken(p)
      => /\ page[p].status = "not_found"
         /\ page[p].booking = None
         /\ page[p].processingAction = "none"
         /\ \A k \in CallIds : calls[k].page # p

\* C23 witness: a page opened on an unmatched token shows not_found while the decision
\* of another caller has been written
C23_NotFoundBesideADecision ==
  \E p \in Pages, k \in CallIds :
    /\ OpenedOnUnmatchedToken(p)
    /\ page[p].status = "not_found"
    /\ calls[k].pc = "done" /\ calls[k].updated /\ calls[k].page # p

\* the fields of the request that the round trip compares, and their image in a fetched
\* booking
RequestFields(data) ==
  <<data.hallPreference, startOfDay(data.date), data.startTime, data.endTime,
    data.studentName, data.studentEmail>>

FetchedFields(booking) ==
  <<booking.hallPreference, booking.date, booking.startTime, booking.endTime,
    booking.studentName, booking.studentEmail>>

\* C24: for every reservation a session created, getBookingByToken with the token it was
\* stored with returns a booking with the hall, date, start time, end time, requester
\* name and email of the session's request, and status pending.
C24_RoundTripByToken ==
  \A c \in DOMAIN fs :
    LET fetched == getBookingByToken(fs, fs[c].token)
    IN /\ IsSome(fetched)
       /\ FetchedFields(The(fetched)) = RequestFields(client[c].data)
       /\ The(fetched).status = "pending"


\* C25: every document of the authoritative store has its end time after its start time
\* (a create whose end is not after its start stores nothing).
C25_StoredEndAfterStart ==
  \A id \in DOMAIN fs :
    /\ MinuteOfDay(fs[id].endTime) > MinuteOfDay(fs[id].startTime)
    /\ fs[id].endTimeDate > fs[id].startTimeDate


\* C29: every document of the authoritative store has its start and its end between
\* 09:00 and 17:00 (a create with a time outside these hours stores nothing).
C29_StoredWithinOperationalHours ==
  \A id \in DOMAIN fs :
    /\ MinuteOfDay(fs[id].startTime) >= startHour * MinutesPerHour
    /\ MinuteOfDay(fs[id].endTime) <= endHour * MinutesPerHour


\* the fields of a document that a decision leaves alone
FrameOf(doc) ==
  [f \in DOMAIN doc \ {"status", "approvedAt", "rejectedAt", "rejectionReason"} |-> doc[f]]

\* C26: no step removes a document from the authoritative store, and no step changes a
\* stored document's hall, date, start, end, requester, token, createdAt or any field
\* other than status, approvedAt, rejectedAt and rejectionReason (the id is the key).
C26_DecisionKeepsTheRecord ==
  [][\A id \in DOMAIN fs :
       /\ id \in DOMAIN fs'
       /\ FrameOf(fs'[id]) = FrameOf(fs[id])]_vars

\* C26 witness: a stored document has been decided and still carries its token and its
\* time of creation
C26_DecidedRecordStillStored ==
  \E id \in DOMAIN fs :
    /\ fs[id].status \in {"approved", "rejected"}
    /\ IsSome(fs[id].approvedAt) \/ IsSome(fs[id].rejectedAt)
    /\ fs[id].token \in Tokens /\ fs[id].createdAt < now


\* the availability check of the form, run now for the hall and day of document id,
\* reads the reservation
InAvailabilityCheck(id) ==
  LET read == RtdbBookingsForHallAndDate(hallBookings, fs[id].hallPreference, fs[id].date)
  IN \E i \in DOMAIN read : read[i].firestoreId = id

\* the month's calendar, computed now, is given the reservation
InCalendar(id) ==
  LET bookings == getVenueAvailabilityForMonth(fs)
  IN \E i \in DOMAIN bookings : bookings[i].id = id

\* the invocation has ended after its write of the decision to the authoritative store
Completed(k) == calls[k].pc = "done" /\ calls[k].updated

\* C27: once an invocation of updateBookingStatus has completed with rejected, the
\* availability check and the calendar computed in any later state leave the reservation
\* out; once one has completed with approved, both still take it in.
C27_ReadsFollowTheDecision ==
  \A k \in CallIds :
    Completed(k)
      => LET id == calls[k].bookingId
         IN IF calls[k].newStatus = "rejected"
            THEN ~InAvailabilityCheck(id) /\ ~InCalendar(id)
            ELSE InAvailabilityCheck(id) /\ InCalendar(id)


\* C28: when the calendar is given no booking for the month, the hall set it works with
\* is Main Hall, Seminar Room A, Conference Room B, and the status it computes is
\* defined for every day of the month and is available.
C28_NoBookingsFallsBackToDefaultHalls ==
  (probe.kind = "calendar" /\ probe.applied /\ venueBookings = <<>>)
    => /\ getUniqueHalls(venueBookings) = <<"Main Hall", "Seminar Room A", "Conference Room B">>
       /\ DOMAIN dayStatus = MonthDays
       /\ \A d \in MonthDays : dayStatus[d] = "available"

\* C28 witness: the effect has run on an empty list of bookings
C28_EffectRanOnNoBookings ==
  /\ probe.kind = "calendar" /\ probe.applied
  /\ venueBookings = <<>>
  /\ getUniqueHalls(venueBookings) # <<>>


\* C30: a session that ended with an error shown and no booking result kept has no
\* document in the authoritative store.
C30_ReportedFailureStoredNothing ==
  \A c \in Clients :
    (client[c].pc = "failed" /\ client[c].error # "none" /\ ~client[c].bookingResult)
      => c \notin DOMAIN fs


CallsOfPage(p) == {k \in CallIds : calls[k].pc # "free" /\ calls[k].page = p}

\* C32: an approval-page session invokes updateBookingStatus at most once.
C32_PageInvokesUpdateAtMostOnce ==
  \A p \in Pages : Cardinality(CallsOfPage(p)) <= 1


\* this step starts an invocation of updateBookingStatus from page p
StartsCallFrom(p) ==
  \E k \in CallIds : calls[k].pc = "free" /\ calls'[k].pc # "free" /\ calls'[k].page = p

\* this step is the normal return of an invocation of page p for the given outcome
ReturnsOkTo(p, outcome) ==
  \E k \in CallIds :
    /\ calls[k].page = p /\ calls[k].newStatus = outcome
    /\ calls[k].pc # "done" /\ calls'[k].pc = "done" /\ calls'[k].result = "ok"

C34_ApprovalMailOnlyAfterPendingSave ==
  [][/\ \A token \in approvalMail' \ approvalMail :
          \E c \in Clients :
            /\ client[c].pc = "saved" /\ client[c].requiresDirectorApproval
            /\ c \in DOMAIN fs /\ c \in DOMAIN hallBookings /\ c \in DOMAIN userBookings
            /\ fs[c].token = token /\ fs[c].status = "pending"
     /\ \A id \in DOMAIN fs' \ DOMAIN fs : fs'[id].status = "pending"]_vars

\* C34 witness: one session's reservation is stored and its token mailed, the
\* classifier having asked for the director; another session's reservation is stored
\* pending although the classifier did not ask for the director
C34_StoredWithAndWithoutMail ==
  \E c, d \in Clients :
    /\ c \in DOMAIN fs /\ client[c].requiresDirectorApproval /\ fs[c].token \in approvalMail
    /\ d \in DOMAIN fs /\ ~client[d].requiresDirectorApproval /\ client[d].pc = "done"
    /\ fs[d].status = "pending"


\* savePendingBooking returned for the session, whose classifier answer did not ask for
\* the director
CreatedWithoutDirector(d) ==
  d \in DOMAIN fs /\ d \in DOMAIN userBookings /\ ~client[d].requiresDirectorApproval

\* C35: where approval pages are opened only on tokens that sendApprovalEmail was given,
\* a reservation created on a classifier answer that did not ask for the director has
\* its token in no mail, is pending, and is read by the availability check and by the
\* calendar.
C35_UnmailedReservationStaysPending ==
  \A d \in Clients :
    CreatedWithoutDirector(d)
      => /\ fs[d].token \notin approvalMail
         /\ fs[d].status = "pending"
         /\ InAvailabilityCheck(d) /\ InCalendar(d)


\* the booking t that the form accepts is free of conflicts, under the buffer rule, with
\* the active bookings the calendar was given for the hall on day d
FormBookingFree(hall, d, t) ==
  \A i \in DOMAIN venueBookings :
    (/\ venueBookings[i].hallPreference = hall
     /\ venueBookings[i].date = DayDate(d)
     /\ IsActive(venueBookings[i]))
    => ~BufferedOverlap(MinuteOfDay(t[1]), MinuteOfDay(t[2]),
                        MinuteOfDay(venueBookings[i].startTime),
                        MinuteOfDay(venueBookings[i].endTime))

\* the bookings the calendar was given are pairwise free of conflicts under the buffer
\* rule, as the form's check leaves them
GivenBookingsCompatible ==
  \A i, j \in DOMAIN venueBookings :
    (/\ i # j
     /\ venueBookings[i].hallPreference = venueBookings[j].hallPreference
     /\ venueBookings[i].date = venueBookings[j].date)
    => ~BufferedOverlap(MinuteOfDay(venueBookings[i].startTime),
                        MinuteOfDay(venueBookings[i].endTime),
                        MinuteOfDay(venueBookings[j].startTime),
                        MinuteOfDay(venueBookings[j].endTime))

\* C36: on a day the calendar marks fully-booked, no hall of the calendar's hall set has
\* a conflict-free booking among those the form accepts (times on the half-hour grid
\* from 09:00 to 17:00, end after start); stated for calendars whose bookings are
\* pairwise compatible.
C36_FullyBookedLeavesNoFormBooking ==
  (probe.kind = "calendar" /\ probe.applied /\ GivenBookingsCompatible)
    => \A d \in MonthDays :
         dayStatus[d] = "fully-booked"
           => \A hall \in Range(getUniqueHalls(venueBookings)), t \in ValidFormIntervals :
                ~FormBookingFree(hall, d, t)


\* the calendar was given no active booking for the hall on day d
HallUnbookedOnDay(hall, d) ==
  \A i \in DOMAIN venueBookings :
    ~(/\ venueBookings[i].hallPreference = hall
      /\ venueBookings[i].date = DayDate(d)
      /\ IsActive(venueBookings[i]))

\* C37: a day on which some hall among Main Hall, Seminar Room A and Conference Room B
\* has no active booking is marked available.
C37_UnbookedDefaultHallMakesDayAvailable ==
  (probe.kind = "calendar" /\ probe.applied)
    => \A d \in MonthDays :
         (\E hall \in ConfiguredHalls : HallUnbookedOnDay(hall, d))
           => dayStatus[d] = "available"


====
